---- MODULE Spec2Model ----
(***************************************************************************)
(* Model of examples/sequential_retrieval.py (sequence building, example   *)
(* generation, in-batch loss targets, shared candidate table) and of       *)
(* keras_rs/src/testing/test_case.py (save/load round-trip helper).        *)
(***************************************************************************)
EXTENDS Integers, Sequences, FiniteSets, Bags, TLC

\* ------------------------------------------------------------------ bounds
MaxRows == 4
MaxLogRows == 6
MaxContextLength == 3
MaxBatch == 2
MaxQueries == 1
MaxIterations == 2
RetrievalK == 2
MaxWeight == 2

UserIDs == {1, 2}
MovieIDs == {1, 2}
Timestamps == {1, 2}
Ratings == {4}

\* ------------------------------------------------------- program constants
MIN_SEQUENCE_LENGTH == 3

VARIABLES
    pc,                  \* position in the data-preparation script
    MAX_CONTEXT_LENGTH,  \* configured window length (module constant, >= 1)
    ratings_df,          \* rows (UserID, MovieID, Rating, Timestamp)
    sequences,           \* dict user_id -> list of records, insertion ordered
    next_user,           \* iterator position of `for sequence in sequences.values()`
    sequence,            \* loop variable of generate_examples_from_user_sequences
    user_examples,       \* result of the last generate_examples_from_user_sequence
    all_examples,        \* accumulator of generate_examples_from_user_sequences
    examples,            \* module-level `examples`
    \* SequentialRetrievalModel
    phase,               \* lifecycle of the model object
    heap,                \* variable objects: reference -> embedding table
    candidate_model_embeddings,      \* self.candidate_model.embeddings (reference)
    retrieval_candidate_embeddings,  \* self.retrieval.candidate_embeddings (reference)
    iterations,          \* optimizer steps applied so far
    y,                   \* label ids of the batch handed to compute_loss
    y_pred,              \* result of call(): query_embeddings (and predictions)
    candidate_embeddings,\* compute_loss local
    labels,              \* compute_loss local
    scores,              \* compute_loss local
    \* TestCase.run_model_saving_test
    tpc,                 \* position in run_model_saving_test
    init_kwargs, input_data, atol, rtol,
    model, model_output, archive, restored_model, restored_output,
    outcome              \* "passed" or "failed" (AssertionError)

dataVars == <<pc, MAX_CONTEXT_LENGTH, ratings_df, sequences, next_user, sequence,
              user_examples, all_examples, examples>>

modelVars == <<phase, heap, candidate_model_embeddings,
               retrieval_candidate_embeddings, iterations, y, y_pred,
               candidate_embeddings, labels, scores>>

testVars == <<tpc, init_kwargs, input_data, atol, rtol, model, model_output,
              archive, restored_model, restored_output, outcome>>

vars == <<dataVars, modelVars, testVars>>

Max(a, b) == IF a >= b THEN a ELSE b
Min(a, b) == IF a <= b THEN a ELSE b

\* ----------------------------------------------- get_movie_sequence_per_user
RatingRows ==
    [UserID : UserIDs, MovieID : MovieIDs, Rating : Ratings, Timestamp : Timestamps]

\* Index of user_id in the insertion-ordered dict d, 0 when absent.
KeyIndex(d, user_id) ==
    IF \E i \in 1..Len(d) : d[i].user_id = user_id
    THEN CHOOSE i \in 1..Len(d) : d[i].user_id = user_id
    ELSE 0

\* sequences[user_id].append({...}) on a defaultdict(list).
DictAppend(d, row) ==
    LET rec == [movie_id |-> row.MovieID,
                timestamp |-> row.Timestamp,
                rating |-> row.Rating]
        i == KeyIndex(d, row.UserID)
    IN IF i = 0
       THEN Append(d, [user_id |-> row.UserID, context |-> <<rec>>])
       ELSE [d EXCEPT ![i].context = Append(@, rec)]

RECURSIVE GroupRows(_, _)
GroupRows(rows, d) ==
    IF rows = <<>> THEN d ELSE GroupRows(Tail(rows), DictAppend(d, Head(rows)))

\* Mutant: ties are placed before the earlier record (unstable sort).
StaysBeforeStrict(a, x) == a.timestamp < x.timestamp

\* list.sort(key=timestamp) is stable: an earlier record with an equal key
\* stays before a later one.
StaysBefore(a, x) == a.timestamp <= x.timestamp

RECURSIVE InsertSorted(_, _)
InsertSorted(sorted, x) ==
    IF sorted = <<>> THEN <<x>>
    ELSE IF StaysBefore(Head(sorted), x)
         THEN <<Head(sorted)>> \o InsertSorted(Tail(sorted), x)
         ELSE <<x>> \o sorted

RECURSIVE SortLoop(_, _)
SortLoop(rest, sorted) ==
    IF rest = <<>> THEN sorted
    ELSE SortLoop(Tail(rest), InsertSorted(sorted, Head(rest)))

SortByTimestamp(context) == SortLoop(context, <<>>)

get_movie_sequence_per_user(df) ==
    LET grouped == GroupRows(df, <<>>)
    IN [i \in 1..Len(grouped) |->
          [grouped[i] EXCEPT !.context = SortByTimestamp(@)]]

\* --------------------------------------- generate_examples_from_user_sequence
PaddingEntry == [movie_id |-> 0, timestamp |-> 0, rating |-> 0]

\* Mutant: the window starts one interaction too early.
StartIdxEarly(label_idx, L) == Max(0, label_idx - L - 1)

StartIdx(label_idx, L) == Max(0, label_idx - L)

\* Python slice s[a:b] with 0 <= a <= b <= len(s).
Slice(s, a, b) == SubSeq(s, a + 1, b)

\* Mutant: padding is inserted in front of the context.
PadOncePrepend(context) == <<PaddingEntry>> \o context

PadOnce(context) == Append(context, PaddingEntry)

\* Mutant: pads one entry too many.
NeedsPaddingInclusive(context, L) == Len(context) <= L

NeedsPadding(context, L) == Len(context) < L

RECURSIVE Pad(_, _)
Pad(context, L) ==
    IF NeedsPadding(context, L) THEN Pad(PadOnce(context), L) ELSE context

\* Mutant: the label is the last item of the window itself.
LabelMovieIdInWindow(seq, label_idx) == seq[label_idx].movie_id

LabelMovieId(seq, label_idx) == seq[label_idx + 1].movie_id

Example(seq, label_idx, L) ==
    LET context == Pad(Slice(seq, StartIdx(label_idx, L), label_idx), L)
    IN [context_movie_id |-> [i \in 1..Len(context) |-> context[i].movie_id],
        label_movie_id |-> LabelMovieId(seq, label_idx)]

RECURSIVE ExamplesLoop(_, _, _, _)
ExamplesLoop(seq, label_idx, L, acc) ==
    IF label_idx < Len(seq)
    THEN ExamplesLoop(seq, label_idx + 1, L, Append(acc, Example(seq, label_idx, L)))
    ELSE acc

generate_examples_from_user_sequence(seq, L) == ExamplesLoop(seq, 1, L, <<>>)

\* Mutant: a sequence of exactly the minimum length is dropped too.
TooShortInclusive(seq) == Len(seq) <= MIN_SEQUENCE_LENGTH

TooShort(seq) == Len(seq) < MIN_SEQUENCE_LENGTH

\* Mutant: the accumulator is overwritten instead of extended.
ExtendOverwrite(all, more) == more

Extend(all, more) == all \o more

\* ---------------------------------------------------------------- actions
BoundedSeqs(S, n) == UNION {[1..k -> S] : k \in 0..n}

\* Tables of up to MaxRows rows, timestamps in any order and with ties.
ShortTables == BoundedSeqs(RatingRows, MaxRows)

\* Longer tables, up to MaxLogRows rows, already in chronological order: the
\* timestamp of a row is its row number.
ChronologicalTables ==
    UNION {{[i \in 1..n |->
                [UserID |-> f[i].UserID, MovieID |-> f[i].MovieID,
                 Rating |-> f[i].Rating, Timestamp |-> i]] :
             f \in [1..n -> [UserID : UserIDs, MovieID : MovieIDs, Rating : Ratings]]} :
           n \in (MaxRows + 1)..MaxLogRows}

\* Components a specification does not exercise stay in these states.
IdleData ==
    /\ pc = "idle"
    /\ MAX_CONTEXT_LENGTH = 1
    /\ ratings_df = <<>>
    /\ sequences = <<>>
    /\ next_user = 1
    /\ sequence = <<>>
    /\ user_examples = <<>>
    /\ all_examples = <<>>
    /\ examples = <<>>

IdleModel ==
    /\ phase = "idle"
    /\ heap = <<>>
    /\ candidate_model_embeddings = 0
    /\ retrieval_candidate_embeddings = 0
    /\ iterations = 0
    /\ y = <<>>
    /\ y_pred = <<>>
    /\ candidate_embeddings = <<>>
    /\ labels = <<>>
    /\ scores = <<>>

IdleTest ==
    /\ tpc = "idle"
    /\ init_kwargs = 0
    /\ input_data = <<>>
    /\ atol = 0
    /\ rtol = 0
    /\ model = 0
    /\ model_output = <<>>
    /\ archive = <<>>
    /\ restored_model = 0
    /\ restored_output = <<>>
    /\ outcome = "none"

InitData ==
    /\ pc = "sequences"
    /\ MAX_CONTEXT_LENGTH \in 1..MaxContextLength
    /\ ratings_df \in ShortTables \cup ChronologicalTables
    /\ sequences = <<>>
    /\ next_user = 1
    /\ sequence = <<>>
    /\ user_examples = <<>>
    /\ all_examples = <<>>
    /\ examples = <<>>

GetMovieSequencePerUser ==
    /\ pc = "sequences"
    /\ sequences' = get_movie_sequence_per_user(ratings_df)
    /\ pc' = "generate"
    /\ UNCHANGED <<MAX_CONTEXT_LENGTH, ratings_df, next_user, sequence,
                   user_examples, all_examples, examples>>
    /\ UNCHANGED <<modelVars, testVars>>

SkipUser ==
    /\ pc = "generate"
    /\ next_user <= Len(sequences)
    /\ TooShort(sequences[next_user].context)
    /\ sequence' = sequences[next_user].context
    /\ next_user' = next_user + 1
    /\ UNCHANGED <<pc, MAX_CONTEXT_LENGTH, ratings_df, sequences,
                   user_examples, all_examples, examples>>
    /\ UNCHANGED <<modelVars, testVars>>

GenerateUser ==
    /\ pc = "generate"
    /\ next_user <= Len(sequences)
    /\ ~TooShort(sequences[next_user].context)
    /\ sequence' = sequences[next_user].context
    /\ user_examples' =
          generate_examples_from_user_sequence(sequence', MAX_CONTEXT_LENGTH)
    /\ all_examples' = Extend(all_examples, user_examples')
    /\ next_user' = next_user + 1
    /\ UNCHANGED <<pc, MAX_CONTEXT_LENGTH, ratings_df, sequences, examples>>
    /\ UNCHANGED <<modelVars, testVars>>

ReturnExamples ==
    /\ pc = "generate"
    /\ next_user > Len(sequences)
    /\ examples' = all_examples
    /\ pc' = "done"
    /\ UNCHANGED <<MAX_CONTEXT_LENGTH, ratings_df, sequences, next_user,
                   sequence, user_examples, all_examples>>
    /\ UNCHANGED <<modelVars, testVars>>

Next ==
    \/ GetMovieSequencePerUser
    \/ SkipUser
    \/ GenerateUser
    \/ ReturnExamples

Init == InitData /\ IdleModel /\ IdleTest

Spec == Init /\ [][Next]_vars

\* ------------------------------------------------- SequentialRetrievalModel
\* Ids the embedding tables are indexed by: the padding id and the movie ids.
ItemIds == {0} \cup MovieIDs

EmbeddingAxis == {1, 2}
EmbeddingValues == {0, 1}
Vectors == [EmbeddingAxis -> EmbeddingValues]
Tables == [ItemIds -> Vectors]

NoTable == "none"
VariableRefs == {1, 2}

\* Mutant: the candidate batch is built in the reverse order of the queries.
EmbeddingLookupReversed(table, ids) ==
    [j \in 1..Len(ids) |-> table[ids[Len(ids) + 1 - j]]]

\* keras.layers.Embedding: row lookup, one row per id, in the order of ids.
EmbeddingLookup(table, ids) == [j \in 1..Len(ids) |-> table[ids[j]]]

\* keras.ops.eye(n, m).
Eye(n, m) == [i \in 1..n |-> [j \in 1..m |-> IF i = j THEN 1 ELSE 0]]

\* M.T for a batch M of embedding vectors.
Transpose(M) == [d \in EmbeddingAxis |-> [j \in 1..Len(M) |-> M[j][d]]]

RECURSIVE SumProductsOver(_, _, _, _, _)
SumProductsOver(A, i, Bt, j, D) ==
    IF D = {} THEN 0
    ELSE LET d == CHOOSE e \in D : TRUE
         IN A[i][d] * Bt[d][j] + SumProductsOver(A, i, Bt, j, D \ {d})

\* ops.matmul(A, Bt): A is (n, dim), Bt is (dim, m).
MatMul(A, Bt, m) ==
    [i \in 1..Len(A) |-> [j \in 1..m |-> SumProductsOver(A, i, Bt, j, EmbeddingAxis)]]

\* Mutant: build() hands the retrieval layer a copy held by another variable.
SnapshotReference(ref) == ref + 1

\* self.retrieval.candidate_embeddings = self.candidate_model.embeddings
SharedReference(ref) == ref

\* BruteForceRetrieval.call: score every candidate, keep the ids of the top k
\* (highest score first, lower id first among equal scores).
CandidateRank(row, ids, id) ==
    Cardinality({j \in ids : row[j] > row[id] \/ (row[j] = row[id] /\ j < id)})

TopKIds(row, ids, k) ==
    [r \in 1..k |-> CHOOSE id \in ids : CandidateRank(row, ids, id) = r - 1]

BruteForceRetrieval(query_embeddings, table) ==
    [i \in 1..Len(query_embeddings) |->
        TopKIds([id \in ItemIds |->
                    SumProductsOver(query_embeddings, i,
                                    [d \in EmbeddingAxis |-> [c \in ItemIds |-> table[c][d]]],
                                    id, EmbeddingAxis)],
                ItemIds, RetrievalK)]

\* Batches handed to predict (the script predicts on batch(1)).
QueryBatches == UNION {[1..n -> Vectors] : n \in 1..MaxQueries}
LabelBatches(n) == [1..n -> MovieIDs]

\* A model that build() has been run on, and a batch of labels.
InitBuiltModel ==
    /\ phase = "built"
    /\ \E table \in Tables :
          heap = [r \in VariableRefs |->
                    IF r \in {1, SharedReference(1)} THEN table ELSE NoTable]
    /\ candidate_model_embeddings = 1
    /\ retrieval_candidate_embeddings = SharedReference(1)
    /\ iterations = 0
    /\ \E n \in 1..MaxBatch : y \in LabelBatches(n)
    /\ y_pred = <<>>
    /\ candidate_embeddings = <<>>
    /\ labels = <<>>
    /\ scores = <<>>

\* A model that has been constructed and not built: no variables yet.
InitConstructedModel ==
    /\ phase = "constructed"
    /\ heap = [r \in VariableRefs |-> NoTable]
    /\ candidate_model_embeddings = 0
    /\ retrieval_candidate_embeddings = 0
    /\ iterations = 0
    /\ y = <<>>
    /\ y_pred = <<>>
    /\ candidate_embeddings = <<>>
    /\ labels = <<>>
    /\ scores = <<>>

\* build(): the candidate tower creates its table (any initial values), the
\* retrieval layer is given the candidate tower's variable.
Build ==
    /\ phase = "constructed"
    /\ \E table \in Tables :
          heap' = [r \in VariableRefs |->
                     IF r \in {1, SharedReference(1)} THEN table ELSE NoTable]
    /\ candidate_model_embeddings' = 1
    /\ retrieval_candidate_embeddings' = SharedReference(1)
    /\ phase' = "built"
    /\ UNCHANGED <<iterations, y, y_pred, candidate_embeddings, labels, scores>>
    /\ UNCHANGED <<dataVars, testVars>>

\* One optimizer update of the candidate tower's table: the variable is
\* assigned in place.
ApplyGradients ==
    /\ phase \in {"built", "predicted"}
    /\ iterations < MaxIterations
    /\ \E id \in ItemIds, v \in Vectors :
          /\ heap[candidate_model_embeddings][id] # v
          /\ heap' = [heap EXCEPT ![candidate_model_embeddings][id] = v]
    /\ iterations' = iterations + 1
    /\ phase' = "built"
    /\ y_pred' = <<>>
    /\ UNCHANGED <<candidate_model_embeddings, retrieval_candidate_embeddings,
                   y, candidate_embeddings, labels, scores>>
    /\ UNCHANGED <<dataVars, testVars>>

\* call(inputs, training=False): the query tower gives one vector per input
\* row, the retrieval layer the top movies for each.
CallPredict ==
    /\ phase \in {"built", "predicted"}
    /\ \E query_embeddings \in QueryBatches :
          y_pred' = [query_embeddings |-> query_embeddings,
                     predictions |->
                        BruteForceRetrieval(query_embeddings,
                                            heap[retrieval_candidate_embeddings])]
    /\ phase' = "predicted"
    /\ UNCHANGED <<heap, candidate_model_embeddings, retrieval_candidate_embeddings,
                   iterations, y, candidate_embeddings, labels, scores>>
    /\ UNCHANGED <<dataVars, testVars>>

\* call(inputs, training=True): query embeddings only, one per example.
CallTraining ==
    /\ phase = "built"
    /\ y_pred = <<>>
    /\ y # <<>>
    /\ \E query_embeddings \in [1..Len(y) -> Vectors] :
          y_pred' = [query_embeddings |-> query_embeddings]
    /\ UNCHANGED <<phase, heap, candidate_model_embeddings,
                   retrieval_candidate_embeddings, iterations, y,
                   candidate_embeddings, labels, scores>>
    /\ UNCHANGED <<dataVars, testVars>>

\* compute_loss(x, y, y_pred, sample_weight): the arguments handed to loss_fn.
ComputeLoss ==
    /\ phase = "built"
    /\ y_pred # <<>>
    /\ LET query_embeddings == y_pred.query_embeddings
           cand == EmbeddingLookup(heap[candidate_model_embeddings], y)
           num_queries == Len(query_embeddings)
           num_candidates == Len(cand)
       IN /\ candidate_embeddings' = cand
          /\ labels' = Eye(num_queries, num_candidates)
          /\ scores' = MatMul(query_embeddings, Transpose(cand), num_candidates)
    /\ phase' = "loss"
    /\ UNCHANGED <<heap, candidate_model_embeddings, retrieval_candidate_embeddings,
                   iterations, y, y_pred>>
    /\ UNCHANGED <<dataVars, testVars>>

NextLoss == CallTraining \/ ComputeLoss

InitLoss == InitBuiltModel /\ IdleData /\ IdleTest

SpecLoss == InitLoss /\ [][NextLoss]_vars

NextRetrieval == Build \/ ApplyGradients \/ CallPredict

InitRetrieval == InitConstructedModel /\ IdleData /\ IdleTest

SpecRetrieval == InitRetrieval /\ [][NextRetrieval]_vars

\* --------------------------------------------- TestCase.run_model_saving_test
Weights == 0..MaxWeight
InputValues == {1, 2}
Inputs == [1..2 -> InputValues]
Tolerances == {0, 1}

Abs(a) == IF a < 0 THEN -a ELSE a

\* model(input_data) of the model class under test: one output per input entry.
Forward(weights, x) == [i \in 1..Len(x) |-> weights * x[i]]

\* np.testing.assert_allclose(actual, desired, atol, rtol) does not raise.
AllClose(actual, desired, abs_tol, rel_tol) ==
    /\ Len(actual) = Len(desired)
    /\ \A i \in 1..Len(actual) :
          Abs(actual[i] - desired[i]) <= abs_tol + rel_tol * Abs(desired[i])

\* Mutant: the original model is called a second time.
OriginalOutputAgain(original, restored, x) == Forward(original, x)

\* restored_output = restored_model(input_data)
RestoredOutput(original, restored, x) == Forward(restored, x)

InitTest ==
    /\ tpc = "construct"
    /\ init_kwargs \in Weights
    /\ input_data \in Inputs
    /\ atol \in Tolerances
    /\ rtol \in Tolerances
    /\ model = 0
    /\ model_output = <<>>
    /\ archive = <<>>
    /\ restored_model = 0
    /\ restored_output = <<>>
    /\ outcome = "none"

\* model = cls(**init_kwargs); model_output = model(input_data)
ConstructAndCall ==
    /\ tpc = "construct"
    /\ model' = init_kwargs
    /\ model_output' = Forward(model', input_data)
    /\ tpc' = "save"
    /\ UNCHANGED <<init_kwargs, input_data, atol, rtol, archive, restored_model,
                   restored_output, outcome>>
    /\ UNCHANGED <<dataVars, modelVars>>

\* model.save(path, save_format="keras_v3")
SaveModel ==
    /\ tpc = "save"
    /\ archive' = [config |-> init_kwargs, weights |-> model]
    /\ tpc' = "load"
    /\ UNCHANGED <<init_kwargs, input_data, atol, rtol, model, model_output,
                   restored_model, restored_output, outcome>>
    /\ UNCHANGED <<dataVars, modelVars>>

\* restored_model = keras.models.load_model(path): what the class under test
\* and the archive format restore is theirs to decide, so any weights.
LoadModel ==
    /\ tpc = "load"
    /\ restored_model' \in Weights
    /\ tpc' = "compare"
    /\ UNCHANGED <<init_kwargs, input_data, atol, rtol, model, model_output,
                   archive, restored_output, outcome>>
    /\ UNCHANGED <<dataVars, modelVars>>

\* restored_output = restored_model(input_data); assertAllClose(...)
CompareOutputs ==
    /\ tpc = "compare"
    /\ restored_output' = RestoredOutput(model, restored_model, input_data)
    /\ outcome' = IF AllClose(model_output, restored_output', atol, rtol)
                  THEN "passed" ELSE "failed"
    /\ tpc' = "done"
    /\ UNCHANGED <<init_kwargs, input_data, atol, rtol, model, model_output,
                   archive, restored_model>>
    /\ UNCHANGED <<dataVars, modelVars>>

NextTest == ConstructAndCall \/ SaveModel \/ LoadModel \/ CompareOutputs

InitSaving == InitTest /\ IdleData /\ IdleModel

SpecSaving == InitSaving /\ [][NextTest]_vars

\* ------------------------------------------------------------ claim helpers
Range(s) == {s[i] : i \in 1..Len(s)}

Zeros(n) == [i \in 1..n |-> 0]

\* Movie ids of seq[a..b] (1-based, inclusive), in order.
MovieIdsOf(seq, a, b) == [i \in 1..(b - a + 1) |-> seq[a + i - 1].movie_id]

IsReal(id) == id # 0

\* Split position k (0-based label index) with the padding in front.
LeftPaddedExample(seq, k, L) ==
    [context_movie_id |->
        Zeros(L - Min(k, L)) \o MovieIdsOf(seq, Max(0, k - L) + 1, k),
     label_movie_id |-> seq[k + 1].movie_id]

\* Split position k (0-based label index) with the padding at the end.
RightPaddedExample(seq, k, L) ==
    [context_movie_id |->
        MovieIdsOf(seq, Max(0, k - L) + 1, k) \o Zeros(L - Min(k, L)),
     label_movie_id |-> seq[k + 1].movie_id]

Generated == pc \in {"generate", "done"}

\* The last outer-loop iteration called generate_examples_from_user_sequence.
UserGenerated == Generated /\ Len(sequence) >= MIN_SEQUENCE_LENGTH

ExamplesCount(n) == IF n >= MIN_SEQUENCE_LENGTH THEN n - 1 ELSE 0

RECURSIVE SumCounts(_, _)
SumCounts(d, upto) ==
    IF upto = 0 THEN 0
    ELSE ExamplesCount(Len(d[upto].context)) + SumCounts(d, upto - 1)

UserRowIdx(u) == {i \in 1..Len(ratings_df) : ratings_df[i].UserID = u}

RowRecord(i) ==
    [movie_id |-> ratings_df[i].MovieID,
     timestamp |-> ratings_df[i].Timestamp,
     rating |-> ratings_df[i].Rating]

\* Position of row i among its user's rows ordered by (timestamp, row number).
RowRank(u, i) ==
    1 + Cardinality({j \in UserRowIdx(u) :
            \/ ratings_df[j].Timestamp < ratings_df[i].Timestamp
            \/ /\ ratings_df[j].Timestamp = ratings_df[i].Timestamp
               /\ j < i})

\* The user's own rows in ascending (timestamp, row number) order.
OwnSequence(u) ==
    [r \in 1..Cardinality(UserRowIdx(u)) |->
        RowRecord(CHOOSE i \in UserRowIdx(u) : RowRank(u, i) = r)]

\* What a user contributes, from that user's rows alone.
OwnExamples(u) ==
    LET s == OwnSequence(u)
    IN IF Len(s) < MIN_SEQUENCE_LENGTH THEN <<>>
       ELSE [k \in 1..(Len(s) - 1) |-> RightPaddedExample(s, k, MAX_CONTEXT_LENGTH)]

Occurrences(s, e) == Cardinality({i \in 1..Len(s) : s[i] = e})

RECURSIVE SumOverUsers(_, _)
SumOverUsers(U, e) ==
    IF U = {} THEN 0
    ELSE LET u == CHOOSE v \in U : TRUE
         IN Occurrences(OwnExamples(u), e) + SumOverUsers(U \ {u}, e)

\* ------------------------------------------------------------------ claims

\* C1 (as stated): in every generated example the padding entries (id 0) form
\* a prefix of context_movie_id: no padding entry follows a real item.
C1_PaddingIsPrefix ==
    \A n \in 1..Len(all_examples) :
        LET ctx == all_examples[n].context_movie_id
        IN \A i, j \in 1..Len(ctx) : (i < j /\ ctx[j] = 0) => ctx[i] = 0

\* C1 (amended): the padding entries carry id 0 and form a suffix of
\* context_movie_id (right-padding): the first min(k, L) entries of the
\* example of split position k are real items, all later entries are 0, and no
\* real item follows a padding entry.
C1_PaddingIsSuffix ==
    /\ \A n \in 1..Len(all_examples) :
          LET ctx == all_examples[n].context_movie_id
          IN \A i, j \in 1..Len(ctx) : (i < j /\ ctx[i] = 0) => ctx[j] = 0
    /\ UserGenerated =>
          \A k \in 1..Len(user_examples) :
             LET ctx == user_examples[k].context_movie_id
             IN \A i \in 1..Len(ctx) :
                   (ctx[i] = 0) <=> (i > Min(k, MAX_CONTEXT_LENGTH))

C1_Witness ==
    /\ UserGenerated
    /\ \E k \in 1..Len(user_examples) :
          LET ctx == user_examples[k].context_movie_id
          IN /\ Len(ctx) >= 3
             /\ IsReal(ctx[1])
             /\ ctx[Len(ctx)] = 0

\* C2 (as stated): for a user sequence s of length n >= MIN_SEQUENCE_LENGTH
\* the examples are, for k = 1..n-1 in order, (L - min(k, L)) zeros followed
\* by s[max(0, k-L)] .. s[k-1], with label s[k].
C2_LeftPaddedWindows ==
    UserGenerated =>
        user_examples =
            [k \in 1..(Len(sequence) - 1) |->
                LeftPaddedExample(sequence, k, MAX_CONTEXT_LENGTH)]

\* C2 (amended): for a user sequence s of length n >= MIN_SEQUENCE_LENGTH the
\* examples are, for k = 1..n-1 in order, s[max(0, k-L)] .. s[k-1] followed by
\* (L - min(k, L)) zeros, with label s[k]; [A,B,C,D] with L = 3 gives
\* ([A,0,0],B), ([A,B,0],C), ([A,B,C],D).
C2_RightPaddedWindows ==
    UserGenerated =>
        user_examples =
            [k \in 1..(Len(sequence) - 1) |->
                RightPaddedExample(sequence, k, MAX_CONTEXT_LENGTH)]

\* The scenario of the claim: four interactions A, B, C, D, window length 3.
C2_Witness ==
    /\ UserGenerated
    /\ MAX_CONTEXT_LENGTH = 3
    /\ Len(sequence) = 4
    /\ LET A == sequence[1].movie_id
           B == sequence[2].movie_id
           C == sequence[3].movie_id
           D == sequence[4].movie_id
       IN /\ A # B
          /\ user_examples =
               << [context_movie_id |-> <<A, 0, 0>>, label_movie_id |-> B],
                  [context_movie_id |-> <<A, B, 0>>, label_movie_id |-> C],
                  [context_movie_id |-> <<A, B, C>>, label_movie_id |-> D] >>

\* C3: the label of the example of split position k is the movie id of the
\* interaction that immediately follows the last real item of its context:
\* the r real items of the context are the interactions k-r .. k-1 of the
\* user's sequence, in order, and the label is interaction k.
C3_LabelFollowsWindow ==
    UserGenerated =>
        \A k \in 1..Len(user_examples) :
            LET ex == user_examples[k]
                real == SelectSeq(ex.context_movie_id, IsReal)
                r == Len(real)
            IN /\ r >= 1
               /\ r <= k
               /\ real = MovieIdsOf(sequence, k - r + 1, k)
               /\ ex.label_movie_id = sequence[k + 1].movie_id

\* A truncated window (more history than the window holds) whose label
\* differs from the last item of the window.
C3_Witness ==
    /\ UserGenerated
    /\ \E k \in 1..Len(user_examples) :
          /\ k > MAX_CONTEXT_LENGTH
          /\ user_examples[k].label_movie_id # sequence[k].movie_id
          /\ user_examples[k].label_movie_id = sequence[k + 1].movie_id

\* C4: a user with a sequence of length n contributes n - 1 examples when
\* n >= MIN_SEQUENCE_LENGTH and none otherwise; the output size is the sum
\* of these counts over the users processed.
C4_ExampleCounts ==
    Generated =>
        /\ Len(all_examples) = SumCounts(sequences, next_user - 1)
        /\ UserGenerated => Len(user_examples) = Len(sequence) - 1
        /\ pc = "done" => Len(examples) = SumCounts(sequences, Len(sequences))

\* Two users, one below the minimum length and one at or above it.
C4_Witness ==
    /\ pc = "done"
    /\ \E i, j \in 1..Len(sequences) :
          /\ Len(sequences[i].context) < MIN_SEQUENCE_LENGTH
          /\ Len(sequences[j].context) >= MIN_SEQUENCE_LENGTH
    /\ Len(examples) >= 2

\* C5: every generated example has exactly MAX_CONTEXT_LENGTH context entries.
C5_ContextLength ==
    /\ \A n \in 1..Len(all_examples) :
          Len(all_examples[n].context_movie_id) = MAX_CONTEXT_LENGTH
    /\ \A n \in 1..Len(user_examples) :
          Len(user_examples[n].context_movie_id) = MAX_CONTEXT_LENGTH
    /\ \A n \in 1..Len(examples) :
          Len(examples[n].context_movie_id) = MAX_CONTEXT_LENGTH

\* One user with both a padded (k < L) and a truncated (k > L) window.
C5_Witness ==
    /\ UserGenerated
    /\ MAX_CONTEXT_LENGTH >= 2
    /\ Len(sequence) >= MAX_CONTEXT_LENGTH + 2
    /\ Len(user_examples) = Len(sequence) - 1

\* C6: get_movie_sequence_per_user returns, for every user id, exactly that
\* user's records in ascending timestamp order, records with equal
\* timestamps in the order of the input rows.
C6_GroupedStableSorted ==
    pc # "sequences" =>
        \A u \in UserIDs :
            LET idx == UserRowIdx(u)
                k == KeyIndex(sequences, u)
            IN /\ (idx = {}) <=> (k = 0)
               /\ Cardinality({i \in 1..Len(sequences) :
                                  sequences[i].user_id = u}) <= 1
               /\ k # 0 =>
                     /\ Len(sequences[k].context) = Cardinality(idx)
                     /\ \A i \in idx :
                           sequences[k].context[RowRank(u, i)] = RowRecord(i)

\* Two users interleaved in the input; one has a tie between different
\* movies and a later row with an earlier timestamp.
C6_Witness ==
    /\ pc # "sequences"
    /\ Len(sequences) = 2
    /\ \E u \in UserIDs : \E i, j, m \in UserRowIdx(u) :
          /\ i < j /\ j < m
          /\ ratings_df[i].Timestamp = ratings_df[j].Timestamp
          /\ ratings_df[i].MovieID # ratings_df[j].MovieID
          /\ ratings_df[m].Timestamp < ratings_df[j].Timestamp
          /\ \E o \in i..m : ratings_df[o].UserID # u

\* C9: the output is, as a multiset, the sum over the users of what each
\* user's own rows give: it does not depend on the order in which the groups
\* are processed nor on any other user's rows.
C9_PerUserIndependent ==
    /\ UserGenerated =>
          \E u \in UserIDs :
             /\ sequence = OwnSequence(u)
             /\ user_examples = OwnExamples(u)
    /\ pc = "done" =>
          \A e \in Range(examples) \cup UNION {Range(OwnExamples(u)) : u \in UserIDs} :
             Occurrences(examples, e) = SumOverUsers(UserIDs, e)

\* Both users contribute, and the user processed first is not the lowest id.
C9_Witness ==
    /\ pc = "done"
    /\ Len(sequences) = 2
    /\ sequences[1].user_id > sequences[2].user_id
    /\ \A i \in 1..2 : Len(sequences[i].context) >= MIN_SEQUENCE_LENGTH
    /\ Len(examples) = SumCounts(sequences, 2)

RECURSIVE DotOver(_, _, _)
DotOver(a, b, D) ==
    IF D = {} THEN 0
    ELSE LET d == CHOOSE e \in D : TRUE
         IN a[d] * b[d] + DotOver(a, b, D \ {d})

InnerProduct(a, b) == DotOver(a, b, EmbeddingAxis)

\* C7: in compute_loss for a batch of N examples the target is the N x N
\* identity and scores[i][j] is the inner product of query i with the
\* candidate embedding of example j's label, so the 1 of row i is on the
\* column of example i's own label and every other column is a negative.
C7_IdentityTargetsAligned ==
    phase = "loss" =>
        LET N == Len(y)
            table == heap[candidate_model_embeddings]
        IN /\ Len(labels) = N
           /\ Len(scores) = N
           /\ \A i \in 1..N :
                 /\ Len(labels[i]) = N
                 /\ Len(scores[i]) = N
                 /\ candidate_embeddings[i] = table[y[i]]
                 /\ \A j \in 1..N :
                       /\ labels[i][j] = (IF i = j THEN 1 ELSE 0)
                       /\ scores[i][j] =
                             InnerProduct(y_pred.query_embeddings[i], table[y[j]])

\* Two examples with different labels whose scores tell the columns apart.
C7_Witness ==
    /\ phase = "loss"
    /\ Len(y) = 2
    /\ y[1] # y[2]
    /\ scores[1][1] # scores[1][2]
    /\ scores[1][2] # scores[2][1]
    /\ labels = <<(<<1, 0>>), (<<0, 1>>)>>

\* C8: after build the retrieval layer's candidate embeddings are the
\* candidate tower's table itself: a retrieval call returns the top ids
\* against the table's values at call time, whatever updates came before.
C8_SharedCandidateTable ==
    phase \in {"built", "predicted"} =>
        /\ retrieval_candidate_embeddings = candidate_model_embeddings
        /\ phase = "predicted" =>
              y_pred.predictions =
                 BruteForceRetrieval(y_pred.query_embeddings,
                                     heap[candidate_model_embeddings])

\* A retrieval call after two updates of the table.
C8_Witness ==
    /\ phase = "predicted"
    /\ iterations >= 2
    /\ \E i \in 1..Len(y_pred.predictions) :
          y_pred.predictions[i][1] # 0

\* C10: run_model_saving_test passes exactly when the restored model's output
\* on the same input is within atol + rtol * |restored output| of the
\* original model's output, entry by entry; otherwise its assertion fails.
C10_RoundTripAsserted ==
    tpc = "done" =>
        LET original == Forward(model, input_data)
            restored == Forward(restored_model, input_data)
            close == \A i \in 1..Len(input_data) :
                        Abs(original[i] - restored[i]) <= atol + rtol * Abs(restored[i])
        IN /\ model_output = original
           /\ (outcome = "passed") <=> close
           /\ (outcome = "failed") <=> ~close

\* The archive's weights came back and the helper passed with zero tolerance.
C10_Witness ==
    /\ tpc = "done"
    /\ outcome = "passed"
    /\ restored_model = archive.weights
    /\ model # 0
    /\ atol = 0 /\ rtol = 0

====
